---- MODULE Spec2Model ----
(***************************************************************************)
(* State-machine model of Airnbn_dashboard.py: the cached load_data(), and *)
(* main() as Streamlit re-runs it on every widget interaction.  A run is   *)
(* the sequence load -> sidebar/filter -> distance -> key metrics/plot/EDA *)
(* -> stakeholder insights; st.stop() or an uncaught exception ends it.    *)
(*                                                                         *)
(* Numbers: prices, review counts and availabilities are integers; means   *)
(* and scores are exact fractions <<numerator, denominator>> (the code's   *)
(* float64 rounding is not modelled); distances are in units of 100 m.     *)
(***************************************************************************)
EXTENDS Integers, Sequences, FiniteSets, TLC

VARIABLES
    source,     \* the file AB_NYC_2019.csv: [exists, table]
    cache,      \* st.cache_data's entry for load_data: [stored, value, error]
    widgets,    \* the sidebar widgets' values for the current run
    pc,         \* position of the current run of main()
    data,       \* main's local `data`
    filtered,   \* main's local `filtered`
    out         \* what the current run has put on the page so far

vars == <<source, cache, widgets, pc, data, filtered, out>>

-----------------------------------------------------------------------------
(* Bounds and program constants *)

MaxRows == 3

QuantilePct == 99
DaysPerYear == 365
HighAvailability == 300
DefaultPriceHi == 500

\* Fractions are <<numerator, denominator>>; NaN is the fraction 0/0.
NaN == <<0, 0>>
IsNaN(x) == x[2] = 0

\* Optional values: <<>> is "not there", <<v>> is the value v.
None == <<>>
Some(v) == <<v>>

-----------------------------------------------------------------------------
(* Generic helpers *)

Range(s) == {s[i] : i \in DOMAIN s}

RECURSIVE SumSeq(_)
SumSeq(s) == IF s = <<>> THEN 0 ELSE Head(s) + SumSeq(Tail(s))

Column(rows, c) == [i \in DOMAIN rows |-> rows[i][c]]

RECURSIVE SortedInsert(_, _)
SortedInsert(s, x) ==
    IF s = <<>> THEN <<x>>
    ELSE IF x <= Head(s) THEN <<x>> \o s
    ELSE <<Head(s)>> \o SortedInsert(Tail(s), x)

RECURSIVE SortAsc(_)
SortAsc(s) == IF s = <<>> THEN <<>> ELSE SortedInsert(SortAsc(Tail(s)), Head(s))

\* x <= y, x < y and x = y on fractions; every comparison with NaN is False
FracLe(x, y) == ~IsNaN(x) /\ ~IsNaN(y) /\ x[1] * y[2] <= y[1] * x[2]
FracLt(x, y) == ~IsNaN(x) /\ ~IsNaN(y) /\ x[1] * y[2] < y[1] * x[2]
FracEq(x, y) == ~IsNaN(x) /\ ~IsNaN(y) /\ x[1] * y[2] = y[1] * x[2]

-----------------------------------------------------------------------------
(* The CSV file *)

CsvColumns == {"latitude", "longitude", "neighbourhood_group", "room_type",
               "price", "number_of_reviews", "availability_365", "last_review"}

L(lat, lon, g, rt, p, nr, av, lr) ==
    [latitude |-> lat, longitude |-> lon, neighbourhood_group |-> g,
     room_type |-> rt, price |-> p, number_of_reviews |-> nr,
     availability_365 |-> av, last_review |-> lr]

\* Cells of the coordinate columns as written in the file: "" is a missing
\* cell, "abc" a cell that is no number, "inf" parses to the float infinity.
Listings == <<
    L("40.7", "-73.9", "Bronx",     "Entire home/apt", 200, 0, 100, "2019-05-21"),
    L("40.8", "-73.9", "Brooklyn",  "Private room",    100, 5, 300, "2019-05-03"),
    L("40.7", "-73.9", "Brooklyn",  "Entire home/apt", 200, 5, 100, ""),
    L("40.8", "-73.9", "Bronx",     "Private room",    100, 1, 200, "n.d."),
    L("inf",  "-73.9", "Manhattan", "Entire home/apt", 100, 5, 365, "2019-06-10"),
    L("",     "-73.9", "Manhattan", "Private room",    100, 5, 100, ""),
    L("40.7", "0",     "Bronx",     "Private room",    100, 5, 100, ""),
    L("40.7", "-73.9", "Manhattan", "Shared room",     0,   5, 100, ""),
    L("abc",  "-73.9", "Bronx",     "Private room",    100, 5, 100, "")
>>

\* Files of at most MaxRows rows, each row one of Listings; rows in
\* non-decreasing Listings order (no operation depends on the row order).
Tables ==
    UNION { { [i \in 1..n |-> Listings[f[i]]] :
              f \in { g \in [1..n -> DOMAIN Listings] :
                        \A i \in 1..n, j \in 1..n : i < j => g[i] <= g[j] } }
            : n \in 0..MaxRows }

-----------------------------------------------------------------------------
(* pandas frames: [columns, object, rows]; `object` is the set of columns  *)
(* whose dtype is object (text), rows carry their index label idx.         *)

CoordColumns == {"latitude", "longitude"}

\* pd.DataFrame()
EmptyFrame == [columns |-> {}, object |-> {}, rows |-> <<>>]

\* DataFrame.empty: an axis of length 0
IsEmpty(df) == df.columns = {} \/ Len(df.rows) = 0

\* A column of the file parses as float64 unless a cell of it is no number,
\* and then every cell of it stays text.
IsNumberCell(v) == v \in {"", "0", "40.7", "40.8", "-73.9", "inf"}

read_csv(table) ==
    [columns |-> CsvColumns,
     object  |-> {c \in CoordColumns : \E i \in DOMAIN table : ~IsNumberCell(table[i][c])},
     rows    |-> [i \in DOMAIN table |-> [idx |-> i - 1] @@ table[i]]]

NaT == <<>>

\* pd.to_datetime(errors='coerce'): a date, or NaT for a missing or
\* unparseable cell
to_datetime(v) ==
    CASE v = "2019-05-21" -> <<2019, 5, 21>>
      [] v = "2019-05-03" -> <<2019, 5, 3>>
      [] v = "2019-06-10" -> <<2019, 6, 10>>
      [] OTHER -> NaT

\* Series.isna on a coordinate cell: only the missing cell is null
isna(v) == v = ""

\* (series != 0), elementwise: a text cell never equals the number 0, and
\* NaN != 0 is True
NeZero(df, c, v) == c \in df.object \/ v # "0"

WithRows(df, rows) == [df EXCEPT !.rows = rows]

\* Series.quantile(q) with linear interpolation, as a fraction over 100;
\* NaN for an empty series
quantile(s, pct) ==
    IF s = <<>> THEN NaN
    ELSE LET srt == SortAsc(s)
             pos == (Len(s) - 1) * pct
             k   == pos \div 100
             r   == pos % 100
         IN  IF r = 0 THEN <<100 * srt[k + 1], 100>>
             ELSE <<100 * srt[k + 1] + r * (srt[k + 2] - srt[k + 1]), 100>>

\* value <= threshold
LeThreshold(p, t) == FracLe(<<p, 1>>, t)

DropCoordinates(df) ==
    LET d1 == WithRows(df, SelectSeq(df.rows,
                  LAMBDA r : ~isna(r.latitude) /\ ~isna(r.longitude)))
    IN  WithRows(d1, SelectSeq(d1.rows,
                  LAMBDA r : NeZero(d1, "latitude", r.latitude)
                             /\ NeZero(d1, "longitude", r.longitude)))

\* Variant of DropPriceOutliers: the non-positive prices are dropped before
\* the percentile is taken
DropPriceOutliers_PositiveFirst(df) ==
    LET d1 == WithRows(df, SelectSeq(df.rows, LAMBDA r : r.price > 0))
        t  == quantile(Column(d1.rows, "price"), QuantilePct)
    IN  WithRows(d1, SelectSeq(d1.rows, LAMBDA r : LeThreshold(r.price, t)))

DropPriceOutliers(df) ==
    LET t  == quantile(Column(df.rows, "price"), QuantilePct)
        d1 == WithRows(df, SelectSeq(df.rows, LAMBDA r : LeThreshold(r.price, t)))
    IN  WithRows(d1, SelectSeq(d1.rows, LAMBDA r : r.price > 0))

\* The body of load_data: the returned frame and whether st.error was called
load_data(src) ==
    IF ~src.exists
    THEN [value |-> EmptyFrame, error |-> TRUE]
    ELSE LET d0 == read_csv(src.table)
             d1 == WithRows(d0, [i \in DOMAIN d0.rows |->
                       [d0.rows[i] EXCEPT !.last_review = to_datetime(@)]])
         IN  [value |-> DropPriceOutliers(DropCoordinates(d1)), error |-> FALSE]

\* @st.cache_data: the body runs on the first call only; later calls return
\* the stored value and replay the stored st.error element
NotCached == [stored |-> FALSE, value |-> EmptyFrame, error |-> FALSE]

cached_load_data(c, src) ==
    IF c.stored THEN c
    ELSE LET res == load_data(src)
         IN  [stored |-> TRUE, value |-> res.value, error |-> res.error]

-----------------------------------------------------------------------------
(* Sidebar widgets (lines 256-278) *)

Personas == {"Hosts", "Guests", "Investors", "Policymakers"}

\* sorted(...): the order of Python's string comparison on the names in use
GroupOrder == <<"Bronx", "Brooklyn", "Manhattan">>
RoomOrder  == <<"Entire home/apt", "Private room", "Shared room">>

\* sorted(series.unique()), as the subsequence of `order` that occurs
SortedUnique(s, order) == SelectSeq(order, LAMBDA k : k \in Range(s))

\* A widget returns the user's value, or its default while untouched.
\* widgets holds the user's values as optionals.
Untouched ==
    [stakeholder |-> None, neigh_group |-> None, room_type |-> None,
     price_range |-> None, min_reviews |-> None]

OrDefault(opt, default) == IF opt = None THEN default ELSE opt[1]

Sidebar(w, df) ==
    [stakeholder |-> OrDefault(w.stakeholder, "Hosts"),
     neigh_group |-> OrDefault(w.neigh_group,
                        Range(SortedUnique(Column(df.rows, "neighbourhood_group"), GroupOrder))),
     room_type   |-> OrDefault(w.room_type,
                        Range(SortedUnique(Column(df.rows, "room_type"), RoomOrder))),
     price_range |-> OrDefault(w.price_range, <<0, DefaultPriceHi>>),
     min_reviews |-> OrDefault(w.min_reviews, 0)]

\* What a user can set the widgets to (a few values of each; the price
\* ranges lie inside the slider's range, which always contains 0..500)
GroupChoices(df) ==
    LET options == Range(SortedUnique(Column(df.rows, "neighbourhood_group"), GroupOrder))
    IN  {options, {}} \cup {{g} : g \in options}
RoomChoices(df) ==
    LET options == Range(SortedUnique(Column(df.rows, "room_type"), RoomOrder))
    IN  {options, options \cap {"Entire home/apt"}}
PriceChoices == {<<0, DefaultPriceHi>>, <<0, 100>>, <<150, DefaultPriceHi>>}
ReviewChoices == {0, 5}

-----------------------------------------------------------------------------
(* The filter (lines 283-288) *)

\* Variant of between: exclusive on both sides
between_exclusive(v, lo, hi) == lo < v /\ v < hi

\* Series.between(lo, hi): inclusive on both sides
between(v, lo, hi) == lo <= v /\ v <= hi

FilterMask(r, sel) ==
    /\ r.neighbourhood_group \in sel.neigh_group
    /\ r.room_type \in sel.room_type
    /\ between(r.price, sel.price_range[1], sel.price_range[2])
    /\ r.number_of_reviews >= sel.min_reviews

ApplyFilter(df, sel) == WithRows(df, SelectSeq(df.rows, LAMBDA r : FilterMask(r, sel)))

-----------------------------------------------------------------------------
(* Distance from Times Square (lines 76-84, 297-309) *)

\* haversine_array for one row against (40.7580, -73.9855), in km as a
\* fraction over 10.  sin and cos of an infinite or missing angle are NaN,
\* and NaN propagates through arcsin and sqrt.
haversine(lat, lon) ==
    CASE lat = "40.7" /\ lon = "-73.9" -> <<97, 10>>
      [] lat = "40.8" /\ lon = "-73.9" -> <<86, 10>>
      [] lat = "0"    /\ lon = "-73.9" -> <<45321, 10>>
      [] lat = "40.7" /\ lon = "0"     -> <<60330, 10>>
      [] lat = "40.8" /\ lon = "0"     -> <<60281, 10>>
      [] lat = "0"    /\ lon = "0"     -> <<86663, 10>>
      [] OTHER -> NaN

\* np.radians on a column of dtype object raises TypeError
HaversineRaises(df) == df.object \cap CoordColumns # {}

WithDistance(r, d) == [distance_km |-> d] @@ r

\* The try block of lines 301-306 when nothing raises
DistanceKept(df) ==
    LET rows == [i \in DOMAIN df.rows |->
                    WithDistance(df.rows[i], haversine(df.rows[i].latitude, df.rows[i].longitude))]
        d1   == [df EXCEPT !.columns = @ \cup {"distance_km"}, !.rows = rows]
    IN  WithRows(d1, SelectSeq(d1.rows,
            LAMBDA r : ~IsNaN(r.distance_km) /\ FracLe(<<0, 1>>, r.distance_km)))

\* The except block of lines 307-309
DistanceAllNaN(df) ==
    [df EXCEPT !.columns = @ \cup {"distance_km"},
               !.rows = [i \in DOMAIN df.rows |-> WithDistance(df.rows[i], NaN)]]

-----------------------------------------------------------------------------
(* Aggregates *)

\* Series.mean() of an integer column: sum / count, NaN when empty
Mean(s) == <<SumSeq(s), Len(s)>>

\* Series.mean() of a distance column: NaN cells are skipped
MeanDistance(rows) ==
    LET defined == SelectSeq(Column(rows, "distance_km"), LAMBDA d : ~IsNaN(d))
    IN  <<SumSeq([i \in DOMAIN defined |-> defined[i][1]]), 10 * Len(defined)>>

\* groupby("neighbourhood_group"): the keys that occur, sorted
GroupKeys(rows) == SortedUnique(Column(rows, "neighbourhood_group"), GroupOrder)

GroupRows(rows, g) == SelectSeq(rows, LAMBDA r : r.neighbourhood_group = g)

\* groupby(...)[col].mean(): <<key, mean>> in key order
GroupMean(rows, col) ==
    LET keys == GroupKeys(rows)
    IN  [i \in DOMAIN keys |-> <<keys[i], Mean(Column(GroupRows(rows, keys[i]), col))>>]

\* A fraction in lowest terms (the same number)
RECURSIVE Gcd(_, _)
Gcd(a, b) == IF b = 0 THEN a ELSE Gcd(b, a % b)

Lowest(x) ==
    IF IsNaN(x) THEN NaN
    ELSE LET g == Gcd(x[1], x[2]) IN <<x[1] \div g, x[2] \div g>>

\* a * b and a / n on fractions
FracMul(x, y) == Lowest(<<x[1] * y[1], x[2] * y[2]>>)
FracDivInt(x, n) == Lowest(<<x[1], x[2] * n>>)

\* roi_data['ROI_Score'] (lines 427-431): <<key, score>> in key order
ROI_Score(rows) ==
    LET price == GroupMean(rows, "price")
        avail == GroupMean(rows, "availability_365")
    IN  [i \in DOMAIN price |->
            <<price[i][1], FracMul(price[i][2], FracDivInt(avail[i][2], DaysPerYear))>>]

\* Variant of idxmax: the label of the last occurrence of the maximum
idxmax_last(s) ==
    LET last == CHOOSE i \in DOMAIN s :
                    /\ \A j \in DOMAIN s : FracLe(s[j][2], s[i][2])
                    /\ \A j \in DOMAIN s : j > i => FracLt(s[j][2], s[i][2])
    IN  s[last][1]

\* Series.idxmax(): the label of the first occurrence of the maximum
idxmax(s) ==
    LET first == CHOOSE i \in DOMAIN s :
                    /\ \A j \in DOMAIN s : FracLe(s[j][2], s[i][2])
                    /\ \A j \in DOMAIN s : j < i => FracLt(s[j][2], s[i][2])
    IN  s[first][1]

\* Series.sort_values().head(1): sort_values sorts with kind='quicksort',
\* which is not stable, so any entry with the minimum value can come first
SortHeadCandidates(s) == {i \in DOMAIN s : \A j \in DOMAIN s : FracLe(s[i][2], s[j][2])}

\* (filtered['room_type'] == "Entire home/apt").mean() * 100
EntireHomesPct(rows) ==
    <<100 * Len(SelectSeq(rows, LAMBDA r : r.room_type = "Entire home/apt")), Len(rows)>>

\* (filtered['availability_365'] > 300).mean() * 100
HighAvailPct(rows) ==
    <<100 * Len(SelectSeq(rows, LAMBDA r : r.availability_365 > HighAvailability)), Len(rows)>>

\* last_review.dt.to_period("M")
to_period_M(d) == <<d[1], d[2]>>

\* Lines 230-232: sizes of the groups of the reviewed rows by month; None
\* when no row has a review date (nothing is drawn)
MonthlyReviews(rows) ==
    LET reviews_data == SelectSeq(rows, LAMBDA r : r.last_review # NaT)
        months == {to_period_M(reviews_data[i].last_review) : i \in DOMAIN reviews_data}
    IN  IF Len(reviews_data) > 0
        THEN Some([m \in months |->
                 Len(SelectSeq(reviews_data, LAMBDA r : to_period_M(r.last_review) = m))])
        ELSE None

-----------------------------------------------------------------------------
(* Page sections of main() *)

PlotSampleCap == 2000

Min(a, b) == IF a <= b THEN a ELSE b

\* DataFrame.sample(n): any n of the rows
Samples(rows, n) ==
    { SelectSeq(rows, LAMBDA r : r.idx \in keep) :
        keep \in {k \in SUBSET {rows[i].idx : i \in DOMAIN rows} : Cardinality(k) = n} }

\* create_price_distance_plot (lines 86-93): None for an empty frame, else
\* the rows that are plotted, as x = distance_km, y = price
PlotData(df) ==
    LET sample_size == Min(PlotSampleCap, Len(df.rows))
    IN  IF Len(df.rows) = 0 THEN {None}
        ELSE { Some([i \in DOMAIN rows |->
                      [idx |-> rows[i].idx, x |-> rows[i].distance_km, y |-> rows[i].price]]) :
               rows \in IF Len(df.rows) > sample_size
                        THEN Samples(df.rows, sample_size) ELSE {df.rows} }

\* Key Metrics Overview (lines 315-337); the distance card shows N/A (None)
\* when no distance is defined
KeyMetrics(df) ==
    [total            |-> Len(df.rows),
     avg_price        |-> Mean(Column(df.rows, "price")),
     avg_reviews      |-> Mean(Column(df.rows, "number_of_reviews")),
     avg_availability |-> Mean(Column(df.rows, "availability_365")),
     avg_distance     |->
        IF "distance_km" \in df.columns
           /\ \E i \in DOMAIN df.rows : ~IsNaN(df.rows[i].distance_km)
        THEN Some(MeanDistance(df.rows)) ELSE None]

\* display_eda_section (lines 130-241): the aggregates behind its charts
\* (the order of the bars is left to the chart)
EdaSection(df) ==
    [avg_prices      |-> GroupMean(df.rows, "price"),
     monthly_reviews |-> MonthlyReviews(df.rows)]

\* What head(1) of the sorted group means can be, as positions in the
\* groupby result; 0 stands for the empty result
GuestsPicks(df) ==
    LET s == GroupMean(df.rows, "price")
    IN  IF s = <<>> THEN {0} ELSE SortHeadCandidates(s)

\* Stakeholder-specific insights (lines 370-456): the metrics shown, or the
\* exception that leaves main.  cheapest_neigh.index[0] raises IndexError on
\* an empty result, idxmax raises ValueError on an empty series, and a
\* stakeholder that matches no branch shows nothing.
Insights(stakeholder, df, pick) ==
    CASE stakeholder = "Hosts" ->
            [raised |-> None,
             view |-> Some([persona |-> "Hosts",
                            avg_price |-> Mean(Column(df.rows, "price")),
                            avg_reviews |-> Mean(Column(df.rows, "number_of_reviews")),
                            avg_avail |-> Mean(Column(df.rows, "availability_365"))])]
      [] stakeholder = "Guests" ->
            LET s == GroupMean(df.rows, "price")
            IN  IF s = <<>>
                THEN [raised |-> Some("IndexError"), view |-> None]
                ELSE [raised |-> None,
                      view |-> Some([persona |-> "Guests",
                                     area |-> s[pick][1], price |-> s[pick][2]])]
      [] stakeholder = "Investors" ->
            LET roi == ROI_Score(df.rows)
            IN  IF roi = <<>>
                THEN [raised |-> Some("ValueError"), view |-> None]
                ELSE LET top_roi == idxmax(roi)
                         at == CHOOSE i \in DOMAIN roi : roi[i][1] = top_roi
                     IN  [raised |-> None,
                          view |-> Some([persona |-> "Investors",
                                         area |-> top_roi, score |-> roi[at][2]])]
      [] stakeholder = "Policymakers" ->
            [raised |-> None,
             view |-> Some([persona |-> "Policymakers",
                            entire_homes_pct |-> EntireHomesPct(df.rows),
                            high_avail_pct |-> HighAvailPct(df.rows)])]
      [] OTHER -> [raised |-> None, view |-> None]

-----------------------------------------------------------------------------
(* The state machine *)

\* The page of a run that has not drawn anything yet
BlankPage ==
    [load_error |-> FALSE, sidebar |-> None, selected |-> None, no_match |-> FALSE,
     dist_called |-> FALSE, dist_error |-> FALSE, metrics |-> None, plot |-> None,
     eda |-> None, view |-> None, raised |-> None]

Init ==
    /\ source \in {[exists |-> FALSE, table |-> <<>>]}
                    \cup {[exists |-> TRUE, table |-> t] : t \in Tables}
    /\ cache = NotCached
    /\ widgets = Untouched
    /\ pc = "load"
    /\ data = EmptyFrame
    /\ filtered = EmptyFrame
    /\ out = BlankPage

\* Variant of StopsOnEmptyData: only the frame without columns stops main
StopsOnlyWithoutColumns(df) == df.columns = {}

\* Line 248: main stops when the loaded frame is empty
StopsOnEmptyData(df) == IsEmpty(df)

\* Variant of StopsOnNoMatch: main goes on with an empty selection
NeverStopsOnNoMatch(df) == FALSE

\* Line 293: main stops when the filter selected no row
StopsOnNoMatch(df) == Len(df.rows) = 0

\* Lines 246-249: data = load_data(); st.stop() on an empty frame
Load ==
    /\ pc = "load"
    /\ LET c == cached_load_data(cache, source)
       IN  /\ cache' = c
           /\ data' = c.value
           /\ out' = [out EXCEPT !.load_error = c.error]
           /\ pc' = IF StopsOnEmptyData(c.value) THEN "stopped" ELSE "sidebar"
    /\ UNCHANGED <<source, widgets, filtered>>

\* Lines 256-295: the sidebar, the filter, st.stop() when nothing matches
SidebarFilter ==
    /\ pc = "sidebar"
    /\ LET sel == Sidebar(widgets, data)
           f   == ApplyFilter(data, sel)
       IN  /\ filtered' = f
           /\ out' = [out EXCEPT !.sidebar = Some(sel), !.selected = Some(Len(f.rows)),
                                 !.no_match = StopsOnNoMatch(f)]
           /\ pc' = IF StopsOnNoMatch(f) THEN "stopped" ELSE "distance"
    /\ UNCHANGED <<source, cache, widgets, data>>

\* Variant of DistanceStep: the distance column is also written to `data`
DistanceStep_OnData(d, f) ==
    [data     |-> IF HaversineRaises(d) THEN DistanceAllNaN(d) ELSE DistanceKept(d),
     filtered |-> IF HaversineRaises(f) THEN DistanceAllNaN(f) ELSE DistanceKept(f),
     error    |-> HaversineRaises(f)]

\* Lines 297-309: what the distance step leaves in main's two frames.
\* filtered.copy() and the boolean selections make new frames: `data` is
\* not written.
DistanceStep(d, f) ==
    [data     |-> d,
     filtered |-> IF HaversineRaises(f) THEN DistanceAllNaN(f) ELSE DistanceKept(f),
     error    |-> HaversineRaises(f)]

Distance ==
    /\ pc = "distance"
    /\ LET res == DistanceStep(data, filtered)
       IN  /\ data' = res.data
           /\ filtered' = res.filtered
           /\ out' = [out EXCEPT !.dist_called = TRUE, !.dist_error = res.error]
    /\ pc' = "metrics"
    /\ UNCHANGED <<source, cache, widgets>>

\* Lines 311-363: key metrics, the price/distance plot, the EDA section
Overview ==
    /\ pc = "metrics"
    /\ \E plot \in PlotData(filtered) :
          out' = [out EXCEPT !.metrics = Some(KeyMetrics(filtered)),
                             !.plot = plot,
                             !.eda = Some(EdaSection(filtered))]
    /\ pc' = "insights"
    /\ UNCHANGED <<source, cache, widgets, data, filtered>>

\* Lines 367-460: the stakeholder's insights, then the footer
StakeholderInsights ==
    /\ pc = "insights"
    /\ \E pick \in GuestsPicks(filtered) :
          LET res == Insights(out.sidebar[1].stakeholder, filtered, pick)
          IN  /\ out' = [out EXCEPT !.view = res.view, !.raised = res.raised]
              /\ pc' = IF res.raised = None THEN "done" ELSE "raised"
    /\ UNCHANGED <<source, cache, widgets, data, filtered>>

\* A new run of the script: main's locals and the page start afresh
StartRun ==
    /\ pc' = "load"
    /\ data' = EmptyFrame
    /\ filtered' = EmptyFrame
    /\ out' = BlankPage

\* The widget states one user action away from w: one widget is set to one
\* of its values (a widget set to its default is again an untouched one)
SetWidget(v, default) == IF v = default THEN None ELSE Some(v)

OneChange(w, df, personas) ==
    LET dflt == Sidebar(Untouched, df)
    IN     {[w EXCEPT !.stakeholder = SetWidget(v, dflt.stakeholder)] : v \in personas}
      \cup {[w EXCEPT !.neigh_group = SetWidget(v, dflt.neigh_group)] : v \in GroupChoices(df)}
      \cup {[w EXCEPT !.room_type = SetWidget(v, dflt.room_type)] : v \in RoomChoices(df)}
      \cup {[w EXCEPT !.price_range = SetWidget(v, dflt.price_range)] : v \in PriceChoices}
      \cup {[w EXCEPT !.min_reviews = SetWidget(v, dflt.min_reviews)] : v \in ReviewChoices}

\* The user changes a widget of the sidebar that the last run drew, which
\* starts a new run (a change made while a run is still going starts the
\* same new run, so it is taken at the end of the run)
Interact(personas) ==
    /\ pc \in {"stopped", "done", "raised"}
    /\ out.sidebar # None
    /\ \E w \in OneChange(widgets, data, personas) : widgets' = w
    /\ StartRun
    /\ UNCHANGED <<source, cache>>

\* The user re-runs the script without touching a widget
Rerun ==
    /\ pc \in {"stopped", "done", "raised"}
    /\ StartRun
    /\ UNCHANGED <<source, cache, widgets>>

Next ==
    \/ Load
    \/ SidebarFilter
    \/ Distance
    \/ Overview
    \/ StakeholderInsights
    \/ Interact(Personas)
    \/ Rerun

Spec == Init /\ [][Next]_vars

\* The same program with the stakeholder drawn from a wider set than the
\* four options of the selectbox: the dispatch of lines 370-456 as a
\* function of any stakeholder value
AnyStakeholder == Personas \cup {"Tourists"}

NextAnyStakeholder ==
    \/ Load
    \/ SidebarFilter
    \/ Distance
    \/ Overview
    \/ StakeholderInsights
    \/ Interact(AnyStakeholder)
    \/ Rerun

SpecAnyStakeholder == Init /\ [][NextAnyStakeholder]_vars

-----------------------------------------------------------------------------
(* Properties *)

RowSet(df) == Range(df.rows)

\* The four clauses of a filter selection, stated on one row
InGroups(r, sel)   == r.neighbourhood_group \in sel.neigh_group
InRooms(r, sel)    == r.room_type \in sel.room_type
InPrice(r, sel)    == sel.price_range[1] <= r.price /\ r.price <= sel.price_range[2]
HasReviews(r, sel) == r.number_of_reviews >= sel.min_reviews
FourClauses(r, sel) ==
    InGroups(r, sel) /\ InRooms(r, sel) /\ InPrice(r, sel) /\ HasReviews(r, sel)

\* The filter step has run and the distance step has not touched its result
JustFiltered == out.sidebar # None /\ ~out.dist_called

\* C1: a row of the cleaned table is in the result of the filter step iff
\* its group is in the selected groups, its room type is in the selected
\* room types, lo <= price <= hi and number_of_reviews >= the minimum; so
\* the result is a subset of the cleaned table, and all rows are returned
\* when every row satisfies the selection.
C1_FilterIff ==
    JustFiltered =>
        LET sel == out.sidebar[1]
        IN  /\ \A r \in RowSet(data) : r \in RowSet(filtered) <=> FourClauses(r, sel)
            /\ RowSet(filtered) \subseteq RowSet(data)
            /\ (\A r \in RowSet(data) : FourClauses(r, sel)) => filtered.rows = data.rows
            /\ out.selected = Some(Cardinality(RowSet(filtered)))

\* C1 witness: the filter kept a row whose price equals the upper end of
\* the range and dropped another row of the cleaned table.
C1_Witness ==
    /\ JustFiltered
    /\ pc = "distance"
    /\ \E r \in RowSet(filtered) : r.price = out.sidebar[1].price_range[2]
    /\ \E r \in RowSet(data) : r \notin RowSet(filtered)

\* A cell of coordinate column c of the file is the number zero
IsZeroIn(table, c, v) == v = "0" /\ \A i \in DOMAIN table : IsNumberCell(table[i][c])

\* The rows of the file (by position) that survive the coordinate drops
CoordSurvivors(table) ==
    {i \in DOMAIN table :
        /\ table[i].latitude # "" /\ table[i].longitude # ""
        /\ ~IsZeroIn(table, "latitude", table[i].latitude)
        /\ ~IsZeroIn(table, "longitude", table[i].longitude)}

\* The 99th percentile of the price over exactly those rows
Threshold(table) ==
    LET keep == SelectSeq([i \in DOMAIN table |-> i], LAMBDA i : i \in CoordSurvivors(table))
    IN  quantile([k \in DOMAIN keep |-> table[keep[k]].price], QuantilePct)

\* C2: every row load_data returns has non-null, non-zero latitude and
\* longitude, price > 0 and price <= T, T being the 99th percentile of the
\* price over exactly the rows that survive the coordinate drops, before
\* any price-based drop; and every row of the file that meets all of these
\* conditions is returned.
C2_CleanedRows ==
    (cache.stored /\ source.exists) =>
        LET table == source.table
            t == Threshold(table)
            good == {i \in CoordSurvivors(table) :
                        table[i].price > 0 /\ ~IsNaN(t) /\ 100 * table[i].price <= t[1]}
        IN  /\ {r.idx : r \in RowSet(cache.value)} = {i - 1 : i \in good}
            /\ \A r \in RowSet(cache.value) :
                  /\ r.latitude = table[r.idx + 1].latitude
                  /\ r.longitude = table[r.idx + 1].longitude
                  /\ r.price = table[r.idx + 1].price
                  /\ r.latitude # "" /\ r.longitude # ""
                  /\ ~IsZeroIn(table, "latitude", r.latitude)
                  /\ ~IsZeroIn(table, "longitude", r.longitude)
                  /\ r.price > 0
                  /\ ~IsNaN(t) /\ 100 * r.price <= t[1]

\* C2 witness: a load that returned a row, dropped a row for its
\* coordinates, and dropped a row with good coordinates and a positive
\* price because the price is above the percentile.
C2_Witness ==
    /\ cache.stored /\ source.exists
    /\ Len(cache.value.rows) > 0
    /\ \E i \in DOMAIN source.table : i \notin CoordSurvivors(source.table)
    /\ \E i \in CoordSurvivors(source.table) :
          /\ source.table[i].price > 0
          /\ \A r \in RowSet(cache.value) : r.idx # i - 1

\* The rows of the cleaned table that pass the four clauses of the run's
\* selection, in table order
Passed == SelectSeq(data.rows, LAMBDA r : FourClauses(r, out.sidebar[1]))

PassedColumn(c) == [i \in DOMAIN Passed |-> Passed[i][c]]

\* x and y are the same number, or both are NaN
SameNumber(x, y) == (IsNaN(x) /\ IsNaN(y)) \/ FracEq(x, y)

\* C3: rows whose distance is undefined are left out of the
\* distance-dependent metrics only; the listing count and the mean price,
\* review count and availability are computed over every row that passed
\* the four filter clauses.
C3_UndefinedDistanceRetained ==
    out.metrics # None =>
        LET m == out.metrics[1]
        IN  /\ m.total = Len(Passed)
            /\ SameNumber(m.avg_price, <<SumSeq(PassedColumn("price")), Len(Passed)>>)
            /\ SameNumber(m.avg_reviews,
                          <<SumSeq(PassedColumn("number_of_reviews")), Len(Passed)>>)
            /\ SameNumber(m.avg_availability,
                          <<SumSeq(PassedColumn("availability_365")), Len(Passed)>>)
            /\ m.avg_distance # None => ~IsNaN(m.avg_distance[1])

\* The subset the run's aggregates are computed on has no row
EmptySubset == out.metrics # None /\ Len(filtered.rows) = 0

\* C4: every aggregate computed on a zero-row subset yields a "no data"
\* result and never raises, for every stakeholder, also when the subset
\* became empty by the removal of undefined distances after the emptiness
\* check.
C4_EmptySubsetNeverRaises ==
    (EmptySubset /\ pc \in {"done", "raised"}) =>
        /\ out.raised = None
        /\ pc = "done"
        /\ out.view # None

Loaded == pc # "load"

\* Nothing after the load has been executed in the run
NothingAfterLoad ==
    /\ out.sidebar = None /\ out.selected = None /\ ~out.no_match
    /\ filtered = EmptyFrame
    /\ ~out.dist_called /\ ~out.dist_error
    /\ out.metrics = None /\ out.plot = None /\ out.eda = None
    /\ out.view = None /\ out.raised = None

\* C6: load reports a missing source as an error and a source whose rows
\* are all removed by cleaning as an empty table that is no error; the two
\* are distinct values, and in both the run stops before any filter,
\* distance, aggregation or stakeholder step.
C6_LoadOutcomes ==
    /\ (Loaded /\ ~source.exists) =>
          /\ out.load_error
          /\ data = EmptyFrame
          /\ pc = "stopped" /\ NothingAfterLoad
    /\ (Loaded /\ source.exists /\ Len(data.rows) = 0) =>
          /\ ~out.load_error
          /\ data.columns = CsvColumns
          /\ data # EmptyFrame
          /\ pc = "stopped" /\ NothingAfterLoad

\* C6 witness: a file with rows, all of them removed by cleaning; the run
\* stopped at the load with no error shown.
C6_Witness ==
    /\ pc = "stopped" /\ source.exists /\ Len(source.table) > 0
    /\ Len(data.rows) = 0 /\ ~out.load_error /\ NothingAfterLoad

\* C7: when the four-clause filter yields zero rows the run signals "no
\* matches" and stops: no distance, aggregate or stakeholder view is
\* computed on the empty result; and the signal is never given for a subset
\* with a row.
C7_NoMatchStops ==
    /\ (out.sidebar # None /\ \A r \in RowSet(data) : ~FourClauses(r, out.sidebar[1])) =>
          /\ out.no_match /\ out.selected = Some(0)
          /\ pc = "stopped"
          /\ ~out.dist_called /\ ~out.dist_error
          /\ "distance_km" \notin filtered.columns
          /\ out.metrics = None /\ out.plot = None /\ out.eda = None
          /\ out.view = None /\ out.raised = None
    /\ out.no_match =>
          /\ out.sidebar # None
          /\ Len(filtered.rows) = 0
          /\ \A r \in RowSet(data) : ~FourClauses(r, out.sidebar[1])

\* C7 witness: a non-empty cleaned table none of whose rows passes the
\* selection; the run stopped with the signal.
C7_Witness ==
    /\ pc = "stopped" /\ out.no_match /\ Len(data.rows) > 0

\* Per-group sums over the subset the insights are computed on
GroupsPresent == {filtered.rows[i].neighbourhood_group : i \in DOMAIN filtered.rows}
RowsOf(g) == {i \in DOMAIN filtered.rows : filtered.rows[i].neighbourhood_group = g}
RECURSIVE SumOver(_, _)
SumOver(ix, c) ==
    IF ix = {} THEN 0
    ELSE LET i == CHOOSE j \in ix : TRUE
         IN  filtered.rows[i][c] + SumOver(ix \ {i}, c)
Count(g) == Cardinality(RowsOf(g))

\* score(g) <= score(h), score being mean price * (mean availability / 365),
\* compared by cross-multiplication
ScoreNum(g) == SumOver(RowsOf(g), "price") * SumOver(RowsOf(g), "availability_365")
ScoreLe(g, h) == ScoreNum(g) * Count(h) * Count(h) <= ScoreNum(h) * Count(g) * Count(g)

\* mean price of g <= mean price of h
MeanPriceLe(g, h) ==
    SumOver(RowsOf(g), "price") * Count(h) <= SumOver(RowsOf(h), "price") * Count(g)

\* Position of a group in the stable (sorted) group ordering
Rank(g) == CHOOSE i \in DOMAIN GroupOrder : GroupOrder[i] = g

ViewOf(persona) ==
    pc = "done" /\ out.view # None /\ out.view[1].persona = persona

\* C8: for a non-empty subset the best ROI area is a group of the subset
\* with the maximum score mean price * (mean availability / 365), and among
\* the groups that share the maximum it is the first in the group ordering.
C8_BestRoiArea ==
    /\ (pc \in {"done", "raised"} /\ out.sidebar[1].stakeholder = "Investors"
            /\ Len(filtered.rows) > 0)
          => ViewOf("Investors")
    /\ ViewOf("Investors") =>
          LET best == out.view[1].area
          IN  /\ best \in GroupsPresent
              /\ \A h \in GroupsPresent : ScoreLe(h, best)
              /\ \A h \in GroupsPresent : ScoreLe(best, h) => Rank(best) <= Rank(h)
              /\ out.view[1].score[2] > 0
              /\ out.view[1].score[1] * (Count(best) * Count(best) * DaysPerYear)
                    = ScoreNum(best) * out.view[1].score[2]

\* C8 witness: two groups share the maximum score with different mean
\* prices, and the view names one of them.
C8_Witness ==
    /\ ViewOf("Investors")
    /\ \E g \in GroupsPresent, h \in GroupsPresent :
          /\ g # h /\ ScoreLe(g, h) /\ ScoreLe(h, g) /\ ~MeanPriceLe(g, h)
          /\ \A k \in GroupsPresent : ScoreLe(k, g)

\* C9: for a non-empty subset the most affordable area is the group with
\* the minimum mean price, shown with that mean price, and among the groups
\* that share the minimum it is the first in the group ordering.
C9_MostAffordableArea ==
    ViewOf("Guests") =>
        LET area == out.view[1].area
        IN  /\ area \in GroupsPresent
            /\ \A h \in GroupsPresent : MeanPriceLe(area, h)
            /\ FracEq(out.view[1].price, <<SumOver(RowsOf(area), "price"), Count(area)>>)
            /\ \A h \in GroupsPresent : MeanPriceLe(h, area) => Rank(area) <= Rank(h)

\* What the one-time load produced
CleanedTable == load_data(source).value

\* C10: after any sequence of widget changes the cleaned table is the table
\* the one-time load produced: no run adds distance_km to it, removes a row
\* or changes a value; so the subset of a run depends only on the cleaned
\* table and the run's own selection.
C10_CleanedTableUnchanged ==
    /\ cache.stored => cache.value = CleanedTable /\ cache.error = ~source.exists
    /\ Loaded => data = CleanedTable /\ "distance_km" \notin data.columns
    /\ out.sidebar # None => out.sidebar[1] = Sidebar(widgets, CleanedTable)
    /\ JustFiltered =>
          filtered.rows = SelectSeq(CleanedTable.rows,
                                    LAMBDA r : FourClauses(r, Sidebar(widgets, CleanedTable)))
    /\ out.dist_called =>
          \A r \in RowSet(filtered) :
              \E c \in RowSet(CleanedTable) :
                  /\ FourClauses(c, Sidebar(widgets, CleanedTable))
                  /\ r = WithDistance(c, r.distance_km)

\* C10 witness: a run after a widget change has computed distances for a
\* subset smaller than the cleaned table.
C10_Witness ==
    /\ widgets # Untouched
    /\ pc = "done"
    /\ "distance_km" \in filtered.columns
    /\ 0 < Len(filtered.rows) /\ Len(filtered.rows) < Len(data.rows)

====
